---- MODULE Spec2Model ----
(***************************************************************************)
(* A model of class Hit_tables (src/lib/Hit_tables.py): the store of raw   *)
(* BLAST hit tables, the assignment of hit ids in add_table, and the two   *)
(* report writers write_hit_sequences and compile_tables.                  *)
(*                                                                         *)
(* Strings are sequences of tokens, so that str.join and concatenation are *)
(* computed, not assumed: the id 'geneA@S1:2' is                           *)
(* <<"geneA", "@", "S1", ":", "2">>.  A Python dict is a record            *)
(* [keys, vals]: keys is the insertion order, vals the mapping.            *)
(***************************************************************************)
EXTENDS Integers, Sequences, FiniteSets, TLC

VARIABLES
    hit_tables,   \* self.__hit_tables: dict sample -> (dict query -> list of Hit) or None
    pc,           \* "idle", or "for": inside the loop of add_table (line 35)
    frame,        \* the locals of the running add_table: sample, hit_table, i, ht, hits_num
    files,        \* the files of the output directory: path -> NoFile or File(lines)
    last_call,    \* history: the method that ended last, <<name>> or <<name, query>>
    again,        \* history: whether the last call repeated the report call right before it
    raised,       \* history: whether the last call ended with an exception
    log,          \* history: the arguments of the add_table calls that returned, in order
    stderr,       \* sys.stderr: the lines the last ended call printed to it
    handles,      \* the paths of the files that were opened and are not closed
    cli           \* labas.py main: the parsed --max_match_num and the max_hits made of it

vars == <<hit_tables, pc, frame, files, last_call, again, raised, log, stderr, handles, cli>>

(***************************************************************************)
(* Bounds and input alphabets.                                             *)
(***************************************************************************)
MaxRows == 4      \* rows of one hit table, in the construction specification
MaxLines == 2     \* rows of one hit table, in the store and report specifications
MaxCalls == 2     \* add_table calls, where a sample may be added again
MaxArg == 510     \* the largest --max_match_num tried
MaxWrites == 1    \* rows of one hit table, in the failing-write specification

Samples == {<<"S1">>, <<"S2">>}
Queries == {<<"geneA">>, <<"geneB">>}
OutDir == <<"out">>

SeqsUpTo(S, n) == UNION {[1..k -> S] : k \in 0..n}

\* A hit table as add_table receives it: row i is a raw BLAST line, here its
\* query (qseqid) and a subject coordinate that tells the rows apart.
RowsOf(qs) == [i \in 1..Len(qs) |-> [qseqid |-> qs[i], sstart |-> i]]

HitTableInputs(n) == {RowsOf(qs) : qs \in SeqsUpTo(Queries, n)}

(***************************************************************************)
(* Python values.                                                          *)
(***************************************************************************)
None == [none |-> TRUE]

EmptyDict == [keys |-> <<>>, vals |-> <<>>]

DictHas(d, k) == k \in DOMAIN d.vals

\* Mutant of DictSet: an existing key is moved to the end.
DictSet_MoveToEnd(d, k, v) ==
    [keys |-> Append(SelectSeq(d.keys, LAMBDA x : x # k), k),
     vals |-> [x \in (DOMAIN d.vals) \cup {k} |-> IF x = k THEN v ELSE d.vals[x]]]

\* d[k] = v: a new key goes last, an existing key keeps its position.
DictSet(d, k, v) ==
    [keys |-> IF DictHas(d, k) THEN d.keys ELSE Append(d.keys, k),
     vals |-> [x \in (DOMAIN d.vals) \cup {k} |-> IF x = k THEN v ELSE d.vals[x]]]

\* sep.join(parts), parts a list of strings
RECURSIVE Join(_, _)
Join(sep, parts) ==
    IF Len(parts) = 0 THEN <<>>
    ELSE IF Len(parts) = 1 THEN parts[1]
    ELSE parts[1] \o sep \o Join(sep, Tail(parts))

\* str(n)
str(n) == <<ToString(n)>>

(***************************************************************************)
(* lib.Hit (not among the sources: modelled from the specification, 4.1).  *)
(***************************************************************************)
HIT_ATTRS == <<<<"sstart">>>>

\* Hit(sample, hit_line, append_sample_name = True)
Hit(sample, hit_line) ==
    [sample |-> sample,
     query |-> hit_line.qseqid,
     hit |-> hit_line.qseqid \o <<"@">> \o sample,
     attr_values |-> <<hit_line.qseqid, <<"contig">>, str(hit_line.sstart)>>,
     sseq |-> <<"seq">> \o str(hit_line.sstart)]

\* Hit(...) raises on a row whose required fields cannot be parsed (7): here a
\* row without a query field.
Malformed(hit_line) == hit_line.qseqid = <<>>

\* h.set_hitid(new_id)
set_hitid(h, new_id) == [h EXCEPT !.hit = new_id]

\* h.write_seq(fasta): the lines of one FASTA record
write_seq(h) == << <<">">> \o h.hit, h.sseq >>

(***************************************************************************)
(* Hit_tables.__init__ and the read accessors.                             *)
(***************************************************************************)
IdleFrame == [sample |-> <<>>, hit_table |-> <<>>, i |-> 0, ht |-> EmptyDict, hits_num |-> <<>>]

\* A file of the output directory: whether it exists, and its lines.
NoFile == [exists |-> FALSE, lines |-> <<>>]
File(lines) == [exists |-> TRUE, lines |-> lines]
Stale == File(<< <<"stale">> >>)

\* Mutant of open_w: mode 'a', an existing file keeps its lines.
open_a(old) == IF old.exists THEN old ELSE File(<<>>)

\* open(path, 'w') on a path whose file is old: the file exists and is empty.
open_w(old) == File(<<>>)

\* print(line, file = f) for each of lines, in order
print_lines(f, lines) == [f EXCEPT !.lines = @ \o lines]

\* os.path.join(outdir, name)
path_join(outdir, name) == Join(<<"/">>, <<outdir, name>>)

CompiledPath(outdir) == path_join(outdir, <<"compiled_hits.tsv">>)
FastaPath(outdir, query) == path_join(outdir, Join(<<".">>, <<query, <<"fna">>>>))
Paths == {CompiledPath(OutDir)} \cup {FastaPath(OutDir, q) : q \in Queries}

\* No command line is being handled.
NoArgs == [max_match_num |-> 0, max_hits |-> 0, pc |-> "none"]

Init ==
    /\ hit_tables = EmptyDict
    /\ pc = "idle"
    /\ frame = IdleFrame
    /\ files \in [Paths -> {NoFile, Stale}]
    /\ last_call = <<"none">>
    /\ again = FALSE
    /\ raised = FALSE
    /\ log = <<>>
    /\ stderr = <<>>
    /\ handles = {}
    /\ cli = NoArgs

table_num == Len(hit_tables.keys)

sample_names == hit_tables.keys

(***************************************************************************)
(* add_table, one action per step of its code.                             *)
(***************************************************************************)
\* Mutants of AddHit (faults the claims must detect).
\* The first hit is not relabelled when the second one arrives.
AddHit_NoRewrite(ht, hits_num, h) ==
    LET q == h.query IN
    IF DictHas(ht, q)
    THEN LET n1 == hits_num[q] + 1
             h1 == set_hitid(h, Join(<<":">>, <<h.hit, str(n1)>>))
         IN [ht |-> DictSet(ht, q, Append(ht.vals[q], h1)),
             hits_num |-> [x \in DOMAIN hits_num |-> IF x = q THEN n1 ELSE hits_num[x]]]
    ELSE [ht |-> DictSet(ht, q, <<h>>),
          hits_num |-> [x \in (DOMAIN hits_num) \cup {q} |-> IF x = q THEN 1 ELSE hits_num[x]]]

\* 'if n >= 1' for 'if n == 1': the relabelling runs at every later hit.
AddHit_RewriteAgain(ht, hits_num, h) ==
    LET q == h.query IN
    IF DictHas(ht, q)
    THEN LET n == hits_num[q]
             h_prev == set_hitid(ht.vals[q][1], Join(<<":">>, <<ht.vals[q][1].hit, <<"1">>>>))
             ht1 == IF n >= 1 THEN DictSet(ht, q, <<h_prev>>) ELSE ht
             n1 == n + 1
             h1 == set_hitid(h, Join(<<":">>, <<h.hit, str(n1)>>))
         IN [ht |-> DictSet(ht1, q, Append(ht1.vals[q], h1)),
             hits_num |-> [x \in DOMAIN hits_num |-> IF x = q THEN n1 ELSE hits_num[x]]]
    ELSE [ht |-> DictSet(ht, q, <<h>>),
          hits_num |-> [x \in (DOMAIN hits_num) \cup {q} |-> IF x = q THEN 1 ELSE hits_num[x]]]

\* The first hit of a query is given the suffix ':1' when it is created.
AddHit_AlwaysSuffix(ht, hits_num, h) ==
    LET q == h.query IN
    IF DictHas(ht, q)
    THEN LET n1 == hits_num[q] + 1
             h1 == set_hitid(h, Join(<<":">>, <<h.hit, str(n1)>>))
         IN [ht |-> DictSet(ht, q, Append(ht.vals[q], h1)),
             hits_num |-> [x \in DOMAIN hits_num |-> IF x = q THEN n1 ELSE hits_num[x]]]
    ELSE [ht |-> DictSet(ht, q, <<set_hitid(h, Join(<<":">>, <<h.hit, <<"1">>>>))>>),
          hits_num |-> [x \in (DOMAIN hits_num) \cup {q} |-> IF x = q THEN 1 ELSE hits_num[x]]]

\* The new hit is labelled before 'n += 1': it gets the old count as its suffix.
AddHit_LateIncrement(ht, hits_num, h) ==
    LET q == h.query IN
    IF DictHas(ht, q)
    THEN LET n == hits_num[q]
             h_prev == set_hitid(ht.vals[q][1], Join(<<":">>, <<ht.vals[q][1].hit, <<"1">>>>))
             ht1 == IF n = 1 THEN DictSet(ht, q, <<h_prev>>) ELSE ht
             h1 == set_hitid(h, Join(<<":">>, <<h.hit, str(n)>>))
             n1 == n + 1
         IN [ht |-> DictSet(ht1, q, Append(ht1.vals[q], h1)),
             hits_num |-> [x \in DOMAIN hits_num |-> IF x = q THEN n1 ELSE hits_num[x]]]
    ELSE [ht |-> DictSet(ht, q, <<h>>),
          hits_num |-> [x \in (DOMAIN hits_num) \cup {q} |-> IF x = q THEN 1 ELSE hits_num[x]]]

\* Line 47 is missing: the count of a query stays at 1 after its first hit.
AddHit_StaleCount(ht, hits_num, h) ==
    LET q == h.query IN
    IF DictHas(ht, q)
    THEN LET n == hits_num[q]
             h_prev == set_hitid(ht.vals[q][1], Join(<<":">>, <<ht.vals[q][1].hit, <<"1">>>>))
             ht1 == IF n = 1 THEN DictSet(ht, q, <<h_prev>>) ELSE ht
             n1 == n + 1
             h1 == set_hitid(h, Join(<<":">>, <<h.hit, str(n1)>>))
         IN [ht |-> DictSet(ht1, q, Append(ht1.vals[q], h1)),
             hits_num |-> hits_num]
    ELSE [ht |-> DictSet(ht, q, <<h>>),
          hits_num |-> [x \in (DOMAIN hits_num) \cup {q} |-> IF x = q THEN 1 ELSE hits_num[x]]]

\* Lines 38-50: the body of the loop for one parsed hit h, on the pair (ht, hits_num).
AddHit(ht, hits_num, h) ==
    LET q == h.query IN
    IF DictHas(ht, q)
    THEN LET n == hits_num[q]
             h_prev == set_hitid(ht.vals[q][1], Join(<<":">>, <<ht.vals[q][1].hit, <<"1">>>>))
             ht1 == IF n = 1 THEN DictSet(ht, q, <<h_prev>>) ELSE ht
             n1 == n + 1
             h1 == set_hitid(h, Join(<<":">>, <<h.hit, str(n1)>>))
         IN [ht |-> DictSet(ht1, q, Append(ht1.vals[q], h1)),
             hits_num |-> [x \in DOMAIN hits_num |-> IF x = q THEN n1 ELSE hits_num[x]]]
    ELSE [ht |-> DictSet(ht, q, <<h>>),
          hits_num |-> [x \in (DOMAIN hits_num) \cup {q} |-> IF x = q THEN 1 ELSE hits_num[x]]]

\* Mutant of Store: a sample that is already stored keeps its first table.
Store_KeepFirst(sample, t) ==
    IF DictHas(hit_tables, sample) THEN hit_tables ELSE DictSet(hit_tables, sample, t)

\* Lines 51 and 53: self.__hit_tables[sample] = t
Store(sample, t) == DictSet(hit_tables, sample, t)

\* Mutant of add_table_call: ht and hits_num are not fresh for the call, they
\* start from the table stored last.
add_table_call_SharedHt(sample, hit_table) ==
    /\ pc = "idle"
    /\ pc' = "for"
    /\ LET n == Len(hit_tables.keys)
           last == IF n > 0 /\ hit_tables.vals[hit_tables.keys[n]] # None
                   THEN hit_tables.vals[hit_tables.keys[n]] ELSE EmptyDict
       IN frame' = [sample |-> sample, hit_table |-> hit_table, i |-> 1,
                    ht |-> last,
                    hits_num |-> [q \in DOMAIN last.vals |-> Len(last.vals[q])]]
    /\ UNCHANGED <<hit_tables, files, last_call, again, raised, log, stderr, handles, cli>>

\* Lines 32-34: the call with a hit table that is not None.
add_table_call(sample, hit_table) ==
    /\ pc = "idle"
    /\ pc' = "for"
    /\ frame' = [sample |-> sample, hit_table |-> hit_table, i |-> 1,
                 ht |-> EmptyDict, hits_num |-> <<>>]
    /\ UNCHANGED <<hit_tables, files, last_call, again, raised, log, stderr, handles, cli>>

\* Lines 35-50: one iteration of the loop.
add_table_row ==
    /\ pc = "for"
    /\ frame.i <= Len(frame.hit_table)
    /\ ~Malformed(frame.hit_table[frame.i])
    /\ LET h == Hit(frame.sample, frame.hit_table[frame.i])
           r == AddHit(frame.ht, frame.hits_num, h)
       IN frame' = [frame EXCEPT !.i = @ + 1, !.ht = r.ht, !.hits_num = r.hits_num]
    /\ UNCHANGED <<hit_tables, pc, files, last_call, again, raised, log, stderr, handles, cli>>

\* Mutant of add_table_raise: the row that does not parse is skipped.
add_table_raise_SkipRow ==
    /\ pc = "for"
    /\ frame.i <= Len(frame.hit_table)
    /\ Malformed(frame.hit_table[frame.i])
    /\ frame' = [frame EXCEPT !.i = @ + 1]
    /\ UNCHANGED <<hit_tables, pc, files, last_call, again, raised, log, stderr, handles, cli>>

\* Lines 35-36, no try around them: Hit(...) raises, the loop and the call end
\* there, lines 37-51 do not run.
add_table_raise ==
    /\ pc = "for"
    /\ frame.i <= Len(frame.hit_table)
    /\ Malformed(frame.hit_table[frame.i])
    /\ pc' = "idle"
    /\ frame' = IdleFrame
    /\ last_call' = <<"add_table">>
    /\ again' = FALSE
    /\ raised' = TRUE
    /\ stderr' = <<>>
    /\ UNCHANGED <<hit_tables, files, log, handles, cli>>

\* Mutant of add_table_store: a table without queries is stored as None.
add_table_store_EmptyAsNone ==
    /\ pc = "for"
    /\ frame.i > Len(frame.hit_table)
    /\ hit_tables' = Store(frame.sample, IF frame.ht = EmptyDict THEN None ELSE frame.ht)
    /\ pc' = "idle"
    /\ frame' = IdleFrame
    /\ last_call' = <<"add_table">>
    /\ again' = FALSE
    /\ raised' = FALSE
    /\ log' = Append(log, [sample |-> frame.sample, hit_table |-> [rows |-> frame.hit_table]])
    /\ stderr' = <<>>
    /\ UNCHANGED <<files, handles, cli>>

\* Lines 51 and 54: the loop is over, the table is stored, the call returns.
add_table_store ==
    /\ pc = "for"
    /\ frame.i > Len(frame.hit_table)
    /\ hit_tables' = Store(frame.sample, frame.ht)
    /\ pc' = "idle"
    /\ frame' = IdleFrame
    /\ last_call' = <<"add_table">>
    /\ again' = FALSE
    /\ raised' = FALSE
    /\ log' = Append(log, [sample |-> frame.sample, hit_table |-> [rows |-> frame.hit_table]])
    /\ stderr' = <<>>
    /\ UNCHANGED <<files, handles, cli>>

\* Mutant of add_table_none: a sample without hits gets no entry.
add_table_none_Skip(sample) ==
    /\ pc = "idle"
    /\ last_call' = <<"add_table">>
    /\ again' = FALSE
    /\ raised' = FALSE
    /\ log' = Append(log, [sample |-> sample, hit_table |-> None])
    /\ stderr' = <<>>
    /\ UNCHANGED <<hit_tables, pc, frame, files, handles, cli>>

\* Lines 52-54: the call with hit_table = None.
add_table_none(sample) ==
    /\ pc = "idle"
    /\ hit_tables' = Store(sample, None)
    /\ last_call' = <<"add_table">>
    /\ again' = FALSE
    /\ raised' = FALSE
    /\ log' = Append(log, [sample |-> sample, hit_table |-> None])
    /\ stderr' = <<>>
    /\ UNCHANGED <<pc, frame, files, handles, cli>>

(***************************************************************************)
(* The report writers.  Each is one action: open, loop, close.             *)
(***************************************************************************)
RECURSIVE Flatten(_)
Flatten(seqs) == IF Len(seqs) = 0 THEN <<>> ELSE Head(seqs) \o Flatten(Tail(seqs))

\* Mutant of FastaLines: the hits of every query of a table are written.
FastaLines_AllQueries(query) ==
    Flatten([i \in 1..Len(hit_tables.keys) |->
        LET t == hit_tables.vals[hit_tables.keys[i]]
        IN IF t # None
           THEN Flatten([j \in 1..Len(t.keys) |->
                    Flatten([k \in 1..Len(t.vals[t.keys[j]]) |-> write_seq(t.vals[t.keys[j]][k])])])
           ELSE <<>>])

\* Lines 58-66: what the loop of write_hit_sequences writes to the file.
FastaLines(query) ==
    Flatten([i \in 1..Len(hit_tables.keys) |->
        LET t == hit_tables.vals[hit_tables.keys[i]]
        IN IF t # None
           THEN IF DictHas(t, query)
                THEN Flatten([k \in 1..Len(t.vals[query]) |-> write_seq(t.vals[query][k])])
                ELSE <<>>
           ELSE <<>>])

\* Line 64
WarnNoQuery(query, s) ==
    <<"Warning (write_hit_sequences): query sequence ">> \o query
        \o <<" was not found in sample ">> \o s \o <<".">>

\* Lines 66 and 78
WarnNoTable(method, s) ==
    <<"Warning (", method, "): no query sequence was found in sample ">> \o s \o <<".">>

\* Mutant of FastaWarnings: nothing is printed for a sample whose table is None.
FastaWarnings_NoneSilent(query) ==
    Flatten([i \in 1..Len(hit_tables.keys) |->
        LET s == hit_tables.keys[i]
            t == hit_tables.vals[s]
        IN IF t # None
           THEN IF DictHas(t, query) THEN <<>> ELSE <<WarnNoQuery(query, s)>>
           ELSE <<>>])

\* Lines 58-66: what the loop of write_hit_sequences prints to sys.stderr.
FastaWarnings(query) ==
    Flatten([i \in 1..Len(hit_tables.keys) |->
        LET s == hit_tables.keys[i]
            t == hit_tables.vals[s]
        IN IF t # None
           THEN IF DictHas(t, query) THEN <<>> ELSE <<WarnNoQuery(query, s)>>
           ELSE <<WarnNoTable("write_hit_sequences", s)>>])

\* Mutant of write_hit_sequences: the file is opened only when a hit is written.
write_hit_sequences_LazyOpen(query, outdir) ==
    /\ pc = "idle"
    /\ files' = [files EXCEPT ![FastaPath(outdir, query)] =
                     IF FastaLines(query) = <<>> THEN @ ELSE print_lines(open_w(@), FastaLines(query))]
    /\ last_call' = <<"write_hit_sequences", query>>
    /\ again' = (last_call = <<"write_hit_sequences", query>>)
    /\ raised' = FALSE
    /\ stderr' = FastaWarnings(query)
    /\ UNCHANGED <<hit_tables, pc, frame, log, handles, cli>>

\* Lines 56-67
write_hit_sequences(query, outdir) ==
    /\ pc = "idle"
    /\ files' = [files EXCEPT ![FastaPath(outdir, query)] = print_lines(open_w(@), FastaLines(query))]
    /\ last_call' = <<"write_hit_sequences", query>>
    /\ again' = (last_call = <<"write_hit_sequences", query>>)
    /\ raised' = FALSE
    /\ stderr' = FastaWarnings(query)
    /\ UNCHANGED <<hit_tables, pc, frame, log, handles, cli>>

\* Line 71: the header line
Header == Join(<<"\t">>, << <<"sample">>, <<"hit">>, <<"qseqid">>, <<"sseqid">> >> \o HIT_ATTRS)

\* Mutant of HitRows: only the first hit of a query is printed.
HitRows_FirstOnly(s, hits) ==
    [k \in 1..1 |-> Join(<<"\t">>, <<s, hits[k].hit>> \o hits[k].attr_values)]

\* Lines 75-76: the rows of the hits of one query
HitRows(s, hits) ==
    [k \in 1..Len(hits) |-> Join(<<"\t">>, <<s, hits[k].hit>> \o hits[k].attr_values)]

\* Mutant of CompiledRows: the samples are taken last first.
CompiledRows_LastFirst ==
    Flatten([i \in 1..Len(hit_tables.keys) |->
        LET s == hit_tables.keys[Len(hit_tables.keys) + 1 - i]
            t == hit_tables.vals[s]
        IN IF t # None
           THEN Flatten([j \in 1..Len(t.keys) |-> HitRows(s, t.vals[t.keys[j]])])
           ELSE <<>>])

\* Lines 72-78: the rows the loop of compile_tables prints
CompiledRows ==
    Flatten([i \in 1..Len(hit_tables.keys) |->
        LET s == hit_tables.keys[i]
            t == hit_tables.vals[s]
        IN IF t # None
           THEN Flatten([j \in 1..Len(t.keys) |-> HitRows(s, t.vals[t.keys[j]])])
           ELSE <<>>])

\* Lines 72-78: what the loop of compile_tables prints to sys.stderr.
CompileWarnings ==
    Flatten([i \in 1..Len(hit_tables.keys) |->
        LET s == hit_tables.keys[i]
        IN IF hit_tables.vals[s] # None THEN <<>> ELSE <<WarnNoTable("compile_tables", s)>>])

\* Mutant of compile_tables: the samples it warns about are dropped from the
\* store.
compile_tables_DropAbsent(outdir) ==
    /\ pc = "idle"
    /\ files' = [files EXCEPT ![CompiledPath(outdir)] =
                     print_lines(print_lines(open_w(@), <<Header>>), CompiledRows)]
    /\ last_call' = <<"compile_tables">>
    /\ again' = (last_call = <<"compile_tables">>)
    /\ raised' = FALSE
    /\ stderr' = CompileWarnings
    /\ hit_tables' =
           LET kept == SelectSeq(hit_tables.keys, LAMBDA s : hit_tables.vals[s] # None)
           IN [keys |-> kept,
               vals |-> [s \in {kept[k] : k \in 1..Len(kept)} |-> hit_tables.vals[s]]]
    /\ UNCHANGED <<pc, frame, log, handles, cli>>

\* Lines 69-80
compile_tables(outdir) ==
    /\ pc = "idle"
    /\ files' = [files EXCEPT ![CompiledPath(outdir)] =
                     print_lines(print_lines(open_w(@), <<Header>>), CompiledRows)]
    /\ last_call' = <<"compile_tables">>
    /\ again' = (last_call = <<"compile_tables">>)
    /\ raised' = FALSE
    /\ stderr' = CompileWarnings
    /\ UNCHANGED <<hit_tables, pc, frame, log, handles, cli>>

(***************************************************************************)
(* The report writers when a print to the output file raises.              *)
(***************************************************************************)
\* Lines 72-78 in the order they run: each print of the loop of
\* compile_tables with the stream it goes to.
CompileEvents ==
    Flatten([i \in 1..Len(hit_tables.keys) |->
        LET s == hit_tables.keys[i]
            t == hit_tables.vals[s]
        IN IF t # None
           THEN LET rows == Flatten([j \in 1..Len(t.keys) |-> HitRows(s, t.vals[t.keys[j]])])
                IN [k \in 1..Len(rows) |-> [to |-> "file", lines |-> <<rows[k]>>]]
           ELSE <<[to |-> "stderr", lines |-> <<WarnNoTable("compile_tables", s)>>]>>])

\* Lines 58-66 in the order they run: each h.write_seq(fasta) and each print
\* of the loop of write_hit_sequences with the stream it goes to.
FastaEvents(query) ==
    Flatten([i \in 1..Len(hit_tables.keys) |->
        LET s == hit_tables.keys[i]
            t == hit_tables.vals[s]
        IN IF t # None
           THEN IF DictHas(t, query)
                THEN [k \in 1..Len(t.vals[query]) |->
                         [to |-> "file", lines |-> write_seq(t.vals[query][k])]]
                ELSE <<[to |-> "stderr", lines |-> <<WarnNoQuery(query, s)>>]>>
           ELSE <<[to |-> "stderr", lines |-> <<WarnNoTable("write_hit_sequences", s)>>]>>])

\* The lines the events sent to one stream.
Sent(events, to) ==
    LET there == SelectSeq(events, LAMBDA e : e.to = to)
    IN Flatten([k \in 1..Len(there) |-> there[k].lines])

\* Lines 70-76: the print of line 76 raises at event k.  The exception leaves
\* compile_tables there: line 79 does not run and nothing else closes
\* output_tsv, so the handle stays open, and of the lines printed before any
\* number may still be in its buffer and not in the file.
compile_tables_fail(outdir, k) ==
    /\ pc = "idle"
    /\ k \in 1..Len(CompileEvents)
    /\ CompileEvents[k].to = "file"
    /\ LET done == SubSeq(CompileEvents, 1, k - 1)
           printed == <<Header>> \o Sent(done, "file")
       IN /\ \E n \in 0..Len(printed) :
                 files' = [files EXCEPT ![CompiledPath(outdir)] =
                              print_lines(open_w(@), SubSeq(printed, 1, n))]
          /\ stderr' = Sent(done, "stderr")
    /\ handles' = handles \cup {CompiledPath(outdir)}
    /\ last_call' = <<"compile_tables">>
    /\ again' = (last_call = <<"compile_tables">>)
    /\ raised' = TRUE
    /\ UNCHANGED <<hit_tables, pc, frame, log, cli>>

\* Lines 57-62: h.write_seq(fasta) raises at event k.  The with statement of
\* line 57 closes fasta before the exception leaves write_hit_sequences, so
\* the records written before are in the file and no handle stays open.
write_hit_sequences_fail(query, outdir, k) ==
    /\ pc = "idle"
    /\ k \in 1..Len(FastaEvents(query))
    /\ FastaEvents(query)[k].to = "file"
    /\ LET done == SubSeq(FastaEvents(query), 1, k - 1)
       IN /\ files' = [files EXCEPT ![FastaPath(outdir, query)] =
                          print_lines(open_w(@), Sent(done, "file"))]
          /\ stderr' = Sent(done, "stderr")
    /\ last_call' = <<"write_hit_sequences", query>>
    /\ again' = (last_call = <<"write_hit_sequences", query>>)
    /\ raised' = TRUE
    /\ UNCHANGED <<hit_tables, pc, frame, log, handles, cli>>

(***************************************************************************)
(* The construction specification: every sample is added once, with hit    *)
(* tables of up to MaxRows rows; no report is written.                     *)
(***************************************************************************)
InitRows == Init /\ files = [p \in Paths |-> NoFile]

NextRows ==
    \/ \E sample \in Samples \ DOMAIN hit_tables.vals, hit_table \in HitTableInputs(MaxRows) :
           add_table_call(sample, hit_table)
    \/ add_table_row
    \/ add_table_store
    \/ \E sample \in Samples \ DOMAIN hit_tables.vals : add_table_none(sample)

SpecRows == InitRows /\ [][NextRows]_vars

(***************************************************************************)
(* The store specification: every sample is added once, with hit tables of *)
(* up to MaxLines rows, and the reports are written at any time between    *)
(* two add_table calls.                                                    *)
(***************************************************************************)
Next ==
    \/ \E sample \in Samples \ DOMAIN hit_tables.vals, hit_table \in HitTableInputs(MaxLines) :
           add_table_call(sample, hit_table)
    \/ add_table_row
    \/ add_table_store
    \/ \E sample \in Samples \ DOMAIN hit_tables.vals : add_table_none(sample)
    \/ \E query \in Queries : write_hit_sequences(query, OutDir)
    \/ compile_tables(OutDir)

Spec == Init /\ [][Next]_vars

(***************************************************************************)
(* The failing-write specification: as the store specification, starting   *)
(* without output files and with hit tables of up to MaxWrites rows, and a *)
(* print to an output file may raise.                                      *)
(***************************************************************************)
NextIO ==
    \/ \E sample \in Samples \ DOMAIN hit_tables.vals, hit_table \in HitTableInputs(MaxWrites) :
           add_table_call(sample, hit_table)
    \/ add_table_row
    \/ add_table_store
    \/ \E sample \in Samples \ DOMAIN hit_tables.vals : add_table_none(sample)
    \/ \E query \in Queries : write_hit_sequences(query, OutDir)
    \/ compile_tables(OutDir)
    \/ \E query \in Queries, k \in 1..(Cardinality(Samples) * MaxWrites) : write_hit_sequences_fail(query, OutDir, k)
    \/ \E k \in 1..(Cardinality(Samples) * MaxWrites) : compile_tables_fail(OutDir, k)

SpecIO == InitRows /\ [][NextIO]_vars

(***************************************************************************)
(* The re-insertion specification: up to MaxCalls add_table calls, a       *)
(* sample may be added again; no report is written.                        *)
(***************************************************************************)
NextDup ==
    \/ \E sample \in Samples, hit_table \in HitTableInputs(MaxLines) :
           Len(log) < MaxCalls /\ add_table_call(sample, hit_table)
    \/ add_table_row
    \/ add_table_store
    \/ \E sample \in Samples : Len(log) < MaxCalls /\ add_table_none(sample)

SpecDup == InitRows /\ [][NextDup]_vars

(***************************************************************************)
(* The parsing specification: as the construction specification, with hit  *)
(* tables of up to MaxLines rows, some of which may not parse.             *)
(***************************************************************************)
NextParse ==
    \/ \E sample \in Samples \ DOMAIN hit_tables.vals :
           \E qs \in SeqsUpTo(Queries \cup {<<>>}, MaxLines) : add_table_call(sample, RowsOf(qs))
    \/ add_table_row
    \/ add_table_raise
    \/ add_table_store
    \/ \E sample \in Samples \ DOMAIN hit_tables.vals : add_table_none(sample)

SpecParse == InitRows /\ [][NextParse]_vars

(***************************************************************************)
(* labas.py: --max_match_num on its way to BLAST(max_hits = ...).          *)
(***************************************************************************)
\* The range the help text of --max_match_num documents (labas.py line 33).
DocMin == 1
DocMax == 500

\* The arguments main passes to check_values (labas.py line 47).
HitsMin == 1
HitsMax == 200
HitsReset == 5

\* lib.utilities.check_values(v, v_min, v_max, v_reset, n): v when it lies in
\* the range, v_reset otherwise.
check_values(v, v_min, v_max, v_reset) ==
    IF v_min <= v /\ v <= v_max THEN v ELSE v_reset

\* labas.py lines 33 and 38: args.max_match_num is the integer on the command line.
parse_arguments(v) ==
    /\ cli.pc = "none"
    /\ cli' = [max_match_num |-> v, max_hits |-> 0, pc |-> "parsed"]
    /\ UNCHANGED <<hit_tables, pc, frame, files, last_call, again, raised, log, stderr, handles>>

\* labas.py lines 45-47: max_hits of the BLAST searcher.
main_blast ==
    /\ cli.pc = "parsed"
    /\ cli' = [cli EXCEPT !.max_hits = check_values(cli.max_match_num, HitsMin, HitsMax, HitsReset),
                          !.pc = "checked"]
    /\ UNCHANGED <<hit_tables, pc, frame, files, last_call, again, raised, log, stderr, handles>>

NextArgs ==
    \/ \E v \in 0..MaxArg : parse_arguments(v)
    \/ main_blast

SpecArgs == InitRows /\ [][NextArgs]_vars

(***************************************************************************)
(* Vocabulary of the claims.                                               *)
(***************************************************************************)
\* The hit_table argument of the latest completed add_table call for sample s.
ArgOf(s) ==
    LET i == CHOOSE i \in 1..Len(log) :
                 log[i].sample = s /\ \A j \in (i + 1)..Len(log) : log[j].sample # s
    IN log[i].hit_table

\* The positions of the rows of query q in a row sequence, ascending.
RowsWith(rows, q) ==
    SelectSeq([i \in 1..Len(rows) |-> i], LAMBDA i : rows[i].qseqid = q)

\* The hit parsed from row i of the rows of sample s, carrying the id new_id.
HitAs(s, rows, i, new_id) == [Hit(s, rows[i]) EXCEPT !.hit = new_id]

Unsuffixed(q, s) == q \o <<"@">> \o s
Suffixed(q, s, n) == q \o <<"@">> \o s \o <<":">> \o <<ToString(n)>>

\* Samples stored with a table built from rows.
Built == {s \in DOMAIN hit_tables.vals : hit_tables.vals[s] # None}

(***************************************************************************)
(* Claims about the ids add_table assigns (checked under SpecRows).        *)
(***************************************************************************)
\* C1: for every stored sample and every query with exactly two rows in the
\* row sequence passed to add_table, the stored list holds the hit of the
\* first row with id '<query>@<sample>:1' and then the hit of the second row
\* with id '<query>@<sample>:2'.
C1_TwoHitsSuffixed ==
    \A s \in Built : \A q \in Queries :
        LET rows == ArgOf(s).rows
            at == RowsWith(rows, q)
        IN Len(at) = 2 =>
               /\ DictHas(hit_tables.vals[s], q)
               /\ hit_tables.vals[s].vals[q] =
                      << HitAs(s, rows, at[1], Suffixed(q, s, 1)),
                         HitAs(s, rows, at[2], Suffixed(q, s, 2)) >>

\* C1 witness: a stored sample in which a query has exactly two rows, with a
\* row of another query between them.
C1_Witness ==
    \E s \in Built : \E q \in Queries :
        LET at == RowsWith(ArgOf(s).rows, q)
        IN Len(at) = 2 /\ at[2] > at[1] + 1

\* The final ids of a query with N >= 3 rows: the i-th stored hit is the hit of
\* the i-th row of the query and carries suffix ':i'.
C2_Final ==
    \A s \in Built : \A q \in Queries :
        LET rows == ArgOf(s).rows
            at == RowsWith(rows, q)
        IN Len(at) >= 3 =>
               /\ DictHas(hit_tables.vals[s], q)
               /\ hit_tables.vals[s].vals[q] =
                      [i \in 1..Len(at) |-> HitAs(s, rows, at[i], Suffixed(q, s, i))]

\* One step of add_table, for a query with N >= 3 rows: a loop iteration keeps
\* the hits already listed in place and changes no id but the first hit's, in
\* the iteration that lists the second hit; the store step stores ht as built.
C2_Step ==
    /\ (pc = "for" /\ pc' = "for") =>
           \A q \in DOMAIN frame.ht.vals :
               Len(RowsWith(frame.hit_table, q)) >= 3 =>
                   LET old == frame.ht.vals[q]
                       new == frame'.ht.vals[q]
                   IN /\ Len(new) >= Len(old)
                      /\ \A k \in 1..Len(old) :
                             /\ [new[k] EXCEPT !.hit = old[k].hit] = old[k]
                             /\ new[k].hit # old[k].hit =>
                                    /\ k = 1 /\ Len(old) = 1 /\ Len(new) = 2
                                    /\ new[k].hit = old[k].hit \o <<":", "1">>
                      /\ (Len(old) = 1 /\ Len(new) = 2) => new[1].hit # old[1].hit
    /\ (pc = "for" /\ pc' = "idle") => hit_tables'.vals[frame.sample] = frame.ht

\* C2: for a query with N >= 3 rows, the i-th observed hit ends up with suffix
\* ':i', and during the construction no id is rewritten but the first hit's,
\* once, when the second row of the query is read (where it gains ':1').
C2_RewrittenOnce == []C2_Final /\ [][C2_Step]_vars

\* C2 witness: a stored sample in which a query has at least three hits, not
\* all adjacent in the row sequence.
C2_Witness ==
    \E s \in Built : \E q \in Queries :
        LET at == RowsWith(ArgOf(s).rows, q)
        IN /\ Len(at) >= 3
           /\ at[Len(at)] - at[1] >= Len(at)
           /\ Len(hit_tables.vals[s].vals[q]) >= 3

\* C3: for every stored sample and every query with exactly one row, the
\* stored list is that one hit with the unsuffixed id '<query>@<sample>'.
C3_SingleUnsuffixed ==
    \A s \in Built : \A q \in Queries :
        LET rows == ArgOf(s).rows
            at == RowsWith(rows, q)
        IN Len(at) = 1 =>
               /\ DictHas(hit_tables.vals[s], q)
               /\ hit_tables.vals[s].vals[q] = << HitAs(s, rows, at[1], Unsuffixed(q, s)) >>

\* C3 witness: a query with exactly one row, lying between two rows of a
\* query that has several.
C3_Witness ==
    \E s \in Built : \E q \in Queries, o \in Queries :
        LET at == RowsWith(ArgOf(s).rows, q)
            ot == RowsWith(ArgOf(s).rows, o)
        IN /\ Len(at) = 1 /\ Len(ot) >= 2
           /\ ot[1] < at[1] /\ at[1] < ot[Len(ot)]
           /\ hit_tables.vals[s].vals[q][1].hit = Unsuffixed(q, s)

\* The (query, position) slots of a stored table.
Slots(t) == UNION {{<<q, k>> : k \in 1..Len(t.vals[q])} : q \in DOMAIN t.vals}

\* C4: the hit ids stored in one sample's table are pairwise distinct.
C4_IdsDistinct ==
    \A s \in Built :
        LET t == hit_tables.vals[s]
        IN \A a \in Slots(t), b \in Slots(t) :
               a # b => t.vals[a[1]][a[2]].hit # t.vals[b[1]][b[2]].hit

\* C4 witness: a stored table with two queries, each with several hits.
C4_Witness ==
    \E s \in Built :
        LET t == hit_tables.vals[s]
        IN /\ Len(t.keys) = 2
           /\ \A q \in DOMAIN t.vals : Len(t.vals[q]) >= 2

(***************************************************************************)
(* Claims about the store (checked under SpecDup).                         *)
(***************************************************************************)
\* The hit_table argument of the first add_table call that ended for sample s.
FirstArgOf(s) ==
    LET i == CHOOSE i \in 1..Len(log) :
                 log[i].sample = s /\ \A j \in 1..(i - 1) : log[j].sample # s
    IN log[i].hit_table

Added == {log[i].sample : i \in 1..Len(log)}

\* Table t is what add_table builds from argument arg, told by the rows its
\* hits come from: None for None, else for each query the hits of its rows.
TableFrom(t, arg) ==
    IF arg = None THEN t = None
    ELSE /\ t # None
         /\ \A q \in Queries :
                LET at == RowsWith(arg.rows, q)
                IN IF Len(at) = 0 THEN ~DictHas(t, q)
                   ELSE /\ DictHas(t, q)
                        /\ [k \in 1..Len(t.vals[q]) |-> t.vals[q][k].attr_values[3]]
                               = [k \in 1..Len(at) |-> <<ToString(at[k])>>]

\* The last add_table call was for a sample that had been added before.
AddedAgain ==
    /\ last_call = <<"add_table">>
    /\ Len(log) >= 2
    /\ \E i \in 1..(Len(log) - 1) : log[i].sample = log[Len(log)].sample

\* C5 as stated, where the second insertion brings another argument than the
\* first: the call raises, and the table stored by the first insertion stays.
C5_Original ==
    (AddedAgain /\ FirstArgOf(log[Len(log)].sample) # ArgOf(log[Len(log)].sample)) =>
        /\ raised
        /\ TableFrom(hit_tables.vals[log[Len(log)].sample], FirstArgOf(log[Len(log)].sample))

\* C5 amended: the second insertion of a sample returns normally and replaces
\* the stored table by the one built from its own argument; the store keeps
\* one entry per sample.
C5_Replaces ==
    AddedAgain =>
        /\ ~raised
        /\ TableFrom(hit_tables.vals[log[Len(log)].sample], ArgOf(log[Len(log)].sample))
        /\ table_num = Cardinality(Added)

\* C5 witness: a sample added twice, the second time with another argument.
C5_Witness ==
    /\ AddedAgain
    /\ FirstArgOf(log[Len(log)].sample) # ArgOf(log[Len(log)].sample)
    /\ pc = "idle"

\* C6: when the samples added so far are distinct, sample_names holds each of
\* them, table_num is their number, and a sample added with None has an entry
\* whose table is None.
C6_AbsentKept ==
    Cardinality(Added) = Len(log) =>
        /\ {sample_names[i] : i \in 1..Len(sample_names)} = Added
        /\ table_num = Len(log)
        /\ \A i \in 1..Len(log) :
               log[i].hit_table = None =>
                   /\ DictHas(hit_tables, log[i].sample)
                   /\ hit_tables.vals[log[i].sample] = None

\* C6 witness: two distinct samples added, the first without hits, the second
\* with a table.
C6_Witness ==
    /\ Len(log) = 2 /\ log[1].sample # log[2].sample
    /\ log[1].hit_table = None /\ log[2].hit_table # None
    /\ table_num = 2

(***************************************************************************)
(* Claims about the reports (checked under Spec).                          *)
(***************************************************************************)
\* The hits of the store: sample, query, position.
StoredHits ==
    UNION {UNION {{<<s, q, k>> : k \in 1..Len(hit_tables.vals[s].vals[q])} :
                      q \in DOMAIN hit_tables.vals[s].vals} : s \in Built}

Absent == {s \in DOMAIN hit_tables.vals : hit_tables.vals[s] = None}

Compiled == files[CompiledPath(OutDir)]

\* C7: after compile_tables the file holds the header and one row per stored
\* hit of the present tables; absent tables add nothing and the call does not
\* fail.
C7_RowCount ==
    last_call = <<"compile_tables">> =>
        /\ ~raised
        /\ Compiled.exists
        /\ Len(Compiled.lines) = 1 + Cardinality(StoredHits)

\* C7 witness: compile_tables has run on a store with an absent sample and a
\* sample with two hits.
C7_Witness ==
    /\ last_call = <<"compile_tables">>
    /\ Absent # {}
    /\ Cardinality(StoredHits) = 2
    /\ Len(Compiled.lines) = 3

\* C8: after write_hit_sequences(query, outdir) the file '<query>.fna' exists;
\* it is empty when no present table holds the query.
C8_FileExists ==
    \A q \in Queries :
        last_call = <<"write_hit_sequences", q>> =>
            /\ files[FastaPath(OutDir, q)].exists
            /\ (\A s \in Built : ~DictHas(hit_tables.vals[s], q)) =>
                   files[FastaPath(OutDir, q)].lines = <<>>

\* C8 witness: the query was extracted from a store of one absent sample and
\* one present sample without the query, and the file is there, empty.
C8_Witness ==
    \E q \in Queries :
        /\ last_call = <<"write_hit_sequences", q>>
        /\ Absent # {} /\ Built # {}
        /\ \A s \in Built : ~DictHas(hit_tables.vals[s], q)
        /\ files[FastaPath(OutDir, q)] = File(<<>>)

\* The rows of the stored hits, as compile_tables formats them.
StoredRows ==
    {Join(<<"\t">>, <<h[1], hit_tables.vals[h[1]].vals[h[2]][h[3]].hit>>
                        \o hit_tables.vals[h[1]].vals[h[2]][h[3]].attr_values) : h \in StoredHits}

\* One compile_tables step: the file it leaves holds the header as line 1 and
\* then exactly the rows of the stored hits; right after another
\* compile_tables call it leaves every file as it was.
C9_Step ==
    (pc = "idle" /\ last_call' = <<"compile_tables">>) =>
        LET new == files'[CompiledPath(OutDir)]
        IN /\ new.exists
           /\ Len(new.lines) = 1 + Cardinality(StoredHits)
           /\ new.lines[1] = Header
           /\ {new.lines[k] : k \in 2..Len(new.lines)} = StoredRows
           /\ last_call = <<"compile_tables">> => files' = files

\* C9: compile_tables called twice in a row leaves the same content both
\* times, and the content it leaves is told by the store alone: the header and
\* the rows of the stored hits, nothing of what the file held before.
C9_Idempotent == [][C9_Step]_vars

\* C9 witness: compile_tables has run twice in a row on a store of two samples
\* with three hits or more, and the file holds the header and their rows.
C9_Witness ==
    /\ last_call = <<"compile_tables">>
    /\ again
    /\ Len(hit_tables.keys) = 2
    /\ Cardinality(StoredHits) >= 3
    /\ Compiled.lines[1] = Header
    /\ Len(Compiled.lines) = 1 + Cardinality(StoredHits)

\* The FASTA record of the k-th of the rows 'at' of query q in sample s: its
\* header is the final id, its body the sequence of that row.
RecordOf(q, s, at, k) ==
    << <<">">> \o (IF Len(at) = 1 THEN Unsuffixed(q, s) ELSE Suffixed(q, s, k)),
       <<"seq", ToString(at[k])>> >>

ExpectedRecords(q) ==
    UNION {{RecordOf(q, s, RowsWith(ArgOf(s).rows, q), k) :
                k \in 1..Len(RowsWith(ArgOf(s).rows, q))} : s \in Built}

\* C10: after write_hit_sequences(query, outdir) the file holds one record per
\* hit stored under the query in the present tables, headed by the final id
\* of the hit, and nothing else.
C10_Records ==
    \A q \in Queries :
        last_call = <<"write_hit_sequences", q>> =>
            LET lines == files[FastaPath(OutDir, q)].lines
            IN /\ Len(lines) = 2 * Cardinality(ExpectedRecords(q))
               /\ {<<lines[2 * k - 1], lines[2 * k]>> : k \in 1..(Len(lines) \div 2)}
                      = ExpectedRecords(q)

\* C10 witness: the query was extracted from two present samples, one with
\* two hits of it, the other with one hit of it and one of another query.
C10_Witness ==
    \E q \in Queries :
        /\ last_call = <<"write_hit_sequences", q>>
        /\ Len(files[FastaPath(OutDir, q)].lines) = 6
        /\ \E s \in Built : \E o \in Queries \ {q} : DictHas(hit_tables.vals[s], o)

(***************************************************************************)
(* Claims about the warnings (checked under Spec).                         *)
(***************************************************************************)
\* String s occurs in the line.
Names(line, s) ==
    \E k \in 1..Len(line) : k + Len(s) - 1 <= Len(line) /\ SubSeq(line, k, k + Len(s) - 1) = s

\* How many lines of sys.stderr name sample s.
WarningsFor(s) == Cardinality({k \in 1..Len(stderr) : Names(stderr[k], s)})

\* The samples of the store whose table gives nothing for query q.
Lacking(q) == Absent \cup {s \in Built : ~DictHas(hit_tables.vals[s], q)}

StderrLines == {stderr[k] : k \in 1..Len(stderr)}

FileLines(f) == {f.lines[k] : k \in 1..Len(f.lines)}

\* C11: write_hit_sequences prints one warning for each sample whose table is
\* absent or lacks the query and none for the others, compile_tables one for
\* each absent sample and none for the others; the samples after a warned one
\* are still written (the file holds all the records, all the rows), and no
\* warning is a line of the file.
C11_Warnings ==
    /\ \A q \in Queries :
           last_call = <<"write_hit_sequences", q>> =>
               /\ \A s \in DOMAIN hit_tables.vals :
                      WarningsFor(s) = IF s \in Lacking(q) THEN 1 ELSE 0
               /\ Len(stderr) = Cardinality(Lacking(q))
               /\ Len(files[FastaPath(OutDir, q)].lines)
                      = 2 * Cardinality({h \in StoredHits : h[2] = q})
               /\ FileLines(files[FastaPath(OutDir, q)]) \cap StderrLines = {}
               /\ ~raised
    /\ last_call = <<"compile_tables">> =>
           /\ \A s \in DOMAIN hit_tables.vals :
                  WarningsFor(s) = IF s \in Absent THEN 1 ELSE 0
           /\ Len(stderr) = Cardinality(Absent)
           /\ Len(Compiled.lines) = 1 + Cardinality(StoredHits)
           /\ FileLines(Compiled) \cap StderrLines = {}
           /\ ~raised

\* C11 witness: the query was extracted from a store whose first sample is
\* absent and whose second sample holds the query: one warning, and the
\* records of the second sample are in the file.
C11_Witness ==
    \E q \in Queries :
        /\ last_call = <<"write_hit_sequences", q>>
        /\ Len(hit_tables.keys) = 2
        /\ hit_tables.vals[hit_tables.keys[1]] = None
        /\ hit_tables.vals[hit_tables.keys[2]] # None
        /\ DictHas(hit_tables.vals[hit_tables.keys[2]], q)
        /\ Len(stderr) = 1
        /\ Len(files[FastaPath(OutDir, q)].lines) >= 2

(***************************************************************************)
(* Claims about rows that do not parse (checked under SpecParse).          *)
(***************************************************************************)
\* The store holds the samples whose add_table call returned, each with the
\* table of its own rows, none of which is malformed; and the loop of a
\* running call has passed no malformed row.
C12_State ==
    /\ \A i \in 1..Len(log) :
           log[i].hit_table # None =>
               \A k \in 1..Len(log[i].hit_table.rows) : ~Malformed(log[i].hit_table.rows[k])
    /\ DOMAIN hit_tables.vals = Added
    /\ \A s \in DOMAIN hit_tables.vals : TableFrom(hit_tables.vals[s], ArgOf(s))
    /\ pc = "for" => \A k \in 1..(frame.i - 1) : ~Malformed(frame.hit_table[k])

\* A call whose next row is malformed ends in its next step, raising, and
\* leaves the store as it was.
C12_Step ==
    (pc = "for" /\ frame.i <= Len(frame.hit_table) /\ Malformed(frame.hit_table[frame.i])) =>
        /\ pc' = "idle" /\ raised'
        /\ hit_tables' = hit_tables
        /\ ~DictHas(hit_tables', frame.sample)

\* C12: a row that does not parse ends add_table at once with an exception
\* (no row is skipped), and the store is what it was before the call: no
\* entry for that sample, no partly built table.
C12_FailsLoudly == []C12_State /\ [][C12_Step]_vars

\* C12 witness: an add_table call has raised after another sample was stored,
\* and the store holds that sample alone.
C12_Witness ==
    /\ raised /\ last_call = <<"add_table">>
    /\ Len(log) = 1 /\ table_num = 1
    /\ hit_tables.vals[log[1].sample] # None

(***************************************************************************)
(* Claim about --max_match_num (checked under SpecArgs).                   *)
(***************************************************************************)
\* C13: every --max_match_num in the documented range 1-500 reaches the BLAST
\* searcher as it was given, and only a value outside the range is replaced
\* by the default 5.
C13_DocumentedRange ==
    cli.pc = "checked" =>
        IF DocMin <= cli.max_match_num /\ cli.max_match_num <= DocMax
        THEN cli.max_hits = cli.max_match_num
        ELSE cli.max_hits = HitsReset

(***************************************************************************)
(* The staging algorithm of the design notes (checked under SpecRows).     *)
(***************************************************************************)
\* The queries of a row sequence, each once, in the order of their first rows.
QueryOrder(rows) ==
    LET firsts == SelectSeq([i \in 1..Len(rows) |-> i],
                            LAMBDA i : \A j \in 1..(i - 1) : rows[j].qseqid # rows[i].qseqid)
    IN [n \in 1..Len(firsts) |-> rows[firsts[n]].qseqid]

\* Pass 1 groups the rows by query; pass 2 gives each list its ids from its
\* length: the default id for a list of one, ':1' .. ':k' in order otherwise.
Staged(sample, rows) ==
    [keys |-> QueryOrder(rows),
     vals |-> [q \in {rows[i].qseqid : i \in 1..Len(rows)} |->
                  LET at == RowsWith(rows, q)
                  IN [k \in 1..Len(at) |->
                         LET h == Hit(sample, rows[at[k]])
                         IN IF Len(at) = 1 THEN h
                            ELSE set_hitid(h, h.hit \o <<":">> \o <<ToString(k)>>)]]]

\* C14: the table add_table stores for a row sequence is the table the
\* two-pass staging algorithm gives for it: the same queries in the same
\* order, the same hits in the same order, the same ids.
C14_SameAsStaged ==
    \A s \in Built : hit_tables.vals[s] = Staged(s, ArgOf(s).rows)

\* C14 witness: a stored table of two queries whose rows are interleaved, one
\* with a single hit and one with three.
C14_Witness ==
    \E s \in Built :
        LET rows == ArgOf(s).rows
            t == hit_tables.vals[s]
        IN /\ Len(rows) = 4 /\ Len(t.keys) = 2
           /\ rows[1].qseqid = rows[3].qseqid /\ rows[2].qseqid # rows[1].qseqid
           /\ rows[4].qseqid = rows[1].qseqid
           /\ Len(t.vals[t.keys[1]]) = 3 /\ Len(t.vals[t.keys[2]]) = 1

(***************************************************************************)
(* The order of the compiled rows (checked under Spec).                    *)
(***************************************************************************)
\* The row of the k-th of the rows 'at' of query q in sample s: sample, final
\* id, then the attribute values of that row.
RowOf(q, s, at, k) ==
    s \o <<"\t">> \o (IF Len(at) = 1 THEN Unsuffixed(q, s) ELSE Suffixed(q, s, k))
      \o <<"\t">> \o q \o <<"\t", "contig", "\t", ToString(at[k])>>

\* The rows of the add_table calls in the order of the calls; within a call by
\* query in the order of the queries' first rows; within a query in row order.
ExpectedRows ==
    Flatten([i \in 1..Len(log) |->
        IF log[i].hit_table = None THEN <<>>
        ELSE LET rows == log[i].hit_table.rows
                 qo == QueryOrder(rows)
             IN Flatten([n \in 1..Len(qo) |->
                    [k \in 1..Len(RowsWith(rows, qo[n])) |->
                        RowOf(qo[n], log[i].sample, RowsWith(rows, qo[n]), k)]])])

AddedNone == {s \in Added : ArgOf(s) = None}

AddedEmpty == {s \in Added : ArgOf(s) = [rows |-> <<>>]}

\* The samples added with a row sequence none of whose rows is of query q.
AddedWithout(q) == {s \in Added : ArgOf(s) # None /\ RowsWith(ArgOf(s).rows, q) = <<>>}

ReportStep ==
    /\ pc = "idle" /\ pc' = "idle"
    /\ \/ last_call' = <<"compile_tables">>
       \/ \E q \in Queries : last_call' = <<"write_hit_sequences", q>>

\* C17: compile_tables and write_hit_sequences are read-only on the store:
\* every call of either leaves the samples, each sample's table or absence
\* marker, the order of the hits and every hit id as they were, so table_num
\* and sample_names return what they returned before; as this holds of each
\* call it holds of any number of calls in any order.
C17_ReadOnly ==
    [][ReportStep =>
           /\ hit_tables' = hit_tables
           /\ table_num' = table_num
           /\ sample_names' = sample_names]_vars

\* C17 witness: both reports have been written, compile_tables twice in a
\* row, over a store with an absent sample and a sample with suffixed ids.
C17_Witness ==
    /\ last_call = <<"compile_tables">> /\ again
    /\ \E q \in Queries : files[FastaPath(OutDir, q)].exists
                            /\ Len(files[FastaPath(OutDir, q)].lines) = 4
    /\ Absent # {}
    /\ \E s \in Built, q \in Queries : Len(hit_tables.vals[s].vals[q]) = 2

(***************************************************************************)
(* Independence of the samples (checked under SpecRows).                   *)
(***************************************************************************)
RECURSIVE LoopFrom(_, _, _)
\* Lines 35-50 run over rows from the dicts acc.
LoopFrom(sample, rows, acc) ==
    IF rows = <<>> THEN acc
    ELSE LoopFrom(sample, Tail(rows), AddHit(acc.ht, acc.hits_num, Hit(sample, Head(rows))))

\* Lines 32-53 on a store of its own: what add_table(sample, arg) stores for
\* sample when nothing else was ever added.
AddedAlone(sample, arg) ==
    IF arg = None THEN None
    ELSE LoopFrom(sample, arg.rows, [ht |-> EmptyDict, hits_num |-> <<>>]).ht

\* C18: the samples are independent.  No step changes or removes the entry
\* of a sample other than the one the ending add_table call is for, and the
\* table of every stored sample is the table its name and its own rows give
\* on a store of their own, whichever samples were added before or after it.
C18_Independent ==
    /\ [](\A s \in DOMAIN hit_tables.vals : hit_tables.vals[s] = AddedAlone(s, ArgOf(s)))
    /\ [][\A a \in DOMAIN hit_tables.vals :
              /\ a \in DOMAIN hit_tables'.vals
              /\ \/ hit_tables'.vals[a] = hit_tables.vals[a]
                 \/ log' # log /\ log'[Len(log')].sample = a]_vars

\* C18 witness: S2 was added before S1, both with rows, and the second table
\* has suffixed ids although it shares a query with the first.
C18_Witness ==
    /\ pc = "idle" /\ Len(log) = 2
    /\ log[1].sample = <<"S2">> /\ log[2].sample = <<"S1">>
    /\ log[1].hit_table # None /\ log[2].hit_table # None
    /\ \E q \in Queries :
           /\ Len(RowsWith(log[1].hit_table.rows, q)) = 1
           /\ Len(RowsWith(log[2].hit_table.rows, q)) = 3
           /\ hit_tables.vals[<<"S2">>].vals[q][1].hit = Unsuffixed(q, <<"S2">>)
           /\ hit_tables.vals[<<"S1">>].vals[q][3].hit = Suffixed(q, <<"S1">>, 3)

(***************************************************************************)
(* The output file handles (checked under SpecIO).                         *)
(***************************************************************************)
\* C19: the output file handle of compile_tables and of write_hit_sequences
\* is closed on every exit path: a call of either that ends, by returning
\* (with or without warnings) or with an error raised while a row or record
\* is written, leaves no handle open that was not open before it.
C19_ClosedOnExit == [][ReportStep => handles' \subseteq handles]_vars

(***************************************************************************)
(* Conservation of the rows (checked under SpecRows).                      *)
(***************************************************************************)
\* The list holds one hit for each of the rows 'at' of the row sequence, in
\* their order: the k-th hit is the hit parsed from row at[k] for sample s,
\* whatever its id.
HitsOfRows(list, s, rows, at) ==
    /\ Len(list) = Len(at)
    /\ \A k \in 1..Len(at) : HitAs(s, rows, at[k], list[k].hit) = list[k]

\* C20: add_table conserves rows.  At every step of the construction the
\* counter of each query equals the length of the list under it, and the list
\* holds one hit per row read so far whose query it is, in input order; the
\* table stored in the end holds under each query one hit per input row of
\* that query, in input order, and no query without a row.
C20_RowsConserved ==
    /\ pc = "for" =>
           LET read == SubSeq(frame.hit_table, 1, frame.i - 1)
           IN /\ DOMAIN frame.hits_num = DOMAIN frame.ht.vals
              /\ \A q \in DOMAIN frame.ht.vals :
                     /\ frame.hits_num[q] = Len(frame.ht.vals[q])
                     /\ HitsOfRows(frame.ht.vals[q], frame.sample, read, RowsWith(read, q))
              /\ \A q \in Queries : RowsWith(read, q) # <<>> => DictHas(frame.ht, q)
    /\ \A s \in Built :
           LET rows == ArgOf(s).rows
               t == hit_tables.vals[s]
           IN /\ DOMAIN t.vals = {rows[i].qseqid : i \in 1..Len(rows)}
              /\ \A q \in DOMAIN t.vals : HitsOfRows(t.vals[q], s, rows, RowsWith(rows, q))

\* C20 witness: the loop has read four rows, three of one query around one
\* of the other, and the counters stand at 3 and 1.
C20_Witness ==
    /\ pc = "for" /\ frame.i = 5
    /\ \E q1, q2 \in Queries :
           /\ q1 # q2
           /\ frame.hit_table[1].qseqid = q1 /\ frame.hit_table[2].qseqid = q2
           /\ frame.hits_num[q1] = 3 /\ frame.hits_num[q2] = 1
           /\ Len(frame.ht.vals[q1]) = 3

====
